---- MODULE Spec2Model ----
(***************************************************************************)
(* A model of the gRPC health-check command line tool                      *)
(* (src/grpc_healthcheck.py) probing a server that implements              *)
(* grpc.health.v1.Health (src/example_server.py).                          *)
(*                                                                         *)
(* One behaviour is one run of the process: the command line is parsed     *)
(* the way argparse parses it (left to right, one option at a time), the   *)
(* target is built, check_health opens a channel, sends one Check, and     *)
(* main turns the outcome into output lines and an exit code.              *)
(*                                                                         *)
(* Optional values (None in Python) are sequences of length 0 or 1.        *)
(* Printed lines are records [stream, mark, text]; the mark is the glyph   *)
(* that starts the line: OK (check mark), FAIL (cross), WARN (warning      *)
(* sign), QUERY (question mark), INFO (magnifier) or NONE.                 *)
(***************************************************************************)
EXTENDS Integers, Sequences, FiniteSets, TLC

VARIABLES pc, argv, server, args, target, opened, closed, secure, sent,
          rpc, exc, ret, out, exitCode

vars == <<pc, argv, server, args, target, opened, closed, secure, sent,
          rpc, exc, ret, out, exitCode>>

---------------------------------------------------------------------------
(* Bounds of the model.                                                    *)

\* longest command line, counted in options
MaxArgs == 3

\* largest integer a numeric option value is parsed to
MaxNumber == 9

---------------------------------------------------------------------------
(* The command line.                                                       *)

None == <<>>

Some(v) == <<v>>

Opt(flag, val) == [flag |-> flag, val |-> val]

\* the options a command line is made of; a flag without a value has val ""
Options ==
    { Opt("-h", ""),
      Opt("--target", ""), Opt("--target", "a:1"),
      Opt("--host", "h"),
      Opt("--port", "7"), Opt("--port", "x"),
      Opt("--service", "X"), Opt("--service", "example.AnotherService"),
      Opt("--timeout", "2"),
      Opt("--tls", ""),
      Opt("--verbose", "") }

RECURSIVE SeqsUpTo(_, _)
SeqsUpTo(S, n) ==
    IF n = 0 THEN { <<>> }
    ELSE LET shorter == SeqsUpTo(S, n - 1)
         IN  shorter \cup { Append(s, x) : s \in shorter, x \in S }

CommandLines == SeqsUpTo(Options, MaxArgs)

\* int(s) and float(s) of argparse's type= conversion, for whole numbers:
\* the number whose decimal form is s, or None when s is not a number.
PyNumber(s) ==
    IF \E n \in 0..MaxNumber : ToString(n) = s
    THEN Some(CHOOSE n \in 0..MaxNumber : ToString(n) = s)
    ELSE None

\* str() of a float holding a whole number
FloatStr(t) == ToString(t) \o ".0"

\* str() of an Optional[str]
OptStr(o) == IF o = None THEN "None" ELSE o[1]

\* truth value of an Optional[str]: None and "" are both false
Truthy(o) == o # None /\ o[1] # ""

DefaultTimeout == 5

DefaultNamespace ==
    [ target |-> None, host |-> None, port |-> None, service |-> "",
      timeout |-> DefaultTimeout, tls |-> FALSE, verbose |-> FALSE ]

ParseOk(ns) == [res |-> "ok", ns |-> ns]

ParseHelp == [res |-> "help"]

ParseError(msg) == [res |-> "error", msg |-> msg]

\* argparse consumes the options left to right.  seen is the set of
\* options of the mutually exclusive group met so far.
RECURSIVE parse_from(_, _, _, _)
parse_from(av, i, ns, seen) ==
    IF i > Len(av)
    THEN IF seen = {}
         THEN ParseError("one of the arguments --target --host is required")
         ELSE ParseOk(ns)
    ELSE LET o == av[i] IN
         CASE o.flag = "-h" -> ParseHelp
           [] o.flag = "--target" ->
                IF "--host" \in seen
                THEN ParseError("argument --target: not allowed with argument --host")
                ELSE parse_from(av, i + 1, [ns EXCEPT !.target = Some(o.val)],
                                seen \cup {"--target"})
           [] o.flag = "--host" ->
                IF "--target" \in seen
                THEN ParseError("argument --host: not allowed with argument --target")
                ELSE parse_from(av, i + 1, [ns EXCEPT !.host = Some(o.val)],
                                seen \cup {"--host"})
           [] o.flag = "--port" ->
                IF PyNumber(o.val) = None
                THEN ParseError("argument --port: invalid int value: '" \o o.val \o "'")
                ELSE parse_from(av, i + 1, [ns EXCEPT !.port = PyNumber(o.val)], seen)
           [] o.flag = "--service" ->
                parse_from(av, i + 1, [ns EXCEPT !.service = o.val], seen)
           [] o.flag = "--timeout" ->
                IF PyNumber(o.val) = None
                THEN ParseError("argument --timeout: invalid float value: '" \o o.val \o "'")
                ELSE parse_from(av, i + 1, [ns EXCEPT !.timeout = PyNumber(o.val)[1]], seen)
           [] o.flag = "--tls" ->
                parse_from(av, i + 1, [ns EXCEPT !.tls = TRUE], seen)
           [] o.flag = "--verbose" ->
                parse_from(av, i + 1, [ns EXCEPT !.verbose = TRUE], seen)

parse_args(av) == parse_from(av, 1, DefaultNamespace, {})

\* exit status of parser.error(), raised by parse_args and by main itself
UsageErrorStatus == 2

---------------------------------------------------------------------------
(* The remote end.                                                         *)

\* health_pb2.HealthCheckResponse.ServingStatus: the name of value v is
\* ServingStatusNames[v + 1]
ServingStatusNames == <<"UNKNOWN", "SERVING", "NOT_SERVING", "SERVICE_UNKNOWN">>

StatusValue(name) ==
    (CHOOSE i \in 1..Len(ServingStatusNames) : ServingStatusNames[i] = name) - 1

HasStatusName(v) == v + 1 \in 1..Len(ServingStatusNames)

StatusName(v) == ServingStatusNames[v + 1]

\* the statuses the example server registers
ExampleServer ==
    [ n \in {"", "example.Service", "example.AnotherService"} |->
        IF n = "example.AnotherService" THEN StatusValue("NOT_SERVING")
        ELSE StatusValue("SERVING") ]

\* the mock server of the service-name test
MockServer ==
    [ n \in {"", "X"} |->
        IF n = "X" THEN StatusValue("NOT_SERVING") ELSE StatusValue("SERVING") ]

\* a server holding the remaining statuses, one of them a value the client's
\* enum has no name for
OddServer ==
    [ n \in {"", "X", "example.AnotherService"} |->
        CASE n = "" -> StatusValue("UNKNOWN")
          [] n = "X" -> StatusValue("SERVICE_UNKNOWN")
          [] OTHER -> Len(ServingStatusNames) ]

Servers == { ExampleServer, MockServer, OddServer }

NoRpc == [kind |-> "none"]

Response(status) == [kind |-> "response", status |-> status]

RpcError(code, details) == [kind |-> "error", code |-> code, details |-> details]

\* the health servicer answers with the registered status, NOT_FOUND for a
\* name it does not know
ServerCheck(srv, request) ==
    IF request.service \in DOMAIN srv
    THEN Response(srv[request.service])
    ELSE RpcError("NOT_FOUND", "")

\* what the transport does with the call: deliver it, or fail with a code
NetOutcomes ==
    { "DELIVERED", "UNAVAILABLE", "DEADLINE_EXCEEDED", "UNIMPLEMENTED",
      "NOT_FOUND", "INTERNAL" }

Details == { "", "failed to connect to all addresses" }

---------------------------------------------------------------------------
(* Output and exceptions.                                                  *)

Line(stream, mark, text) == [stream |-> stream, mark |-> mark, text |-> text]

NoExc == [type |-> "none"]

Raise(type, msg) == [type |-> type, msg |-> msg]

\* ErrorMessage without the NOT_FOUND branch
ErrorMessage_NoNotFound(code, details, tgt, service, timeout) ==
    CASE code = "UNIMPLEMENTED" ->
            "Health check not implemented on the server. "
            \o "Make sure the server implements grpc.health.v1.Health service."
      [] code = "DEADLINE_EXCEEDED" ->
            "Health check timed out after " \o FloatStr(timeout) \o "s"
      [] code = "UNAVAILABLE" -> "Cannot connect to " \o tgt
      [] OTHER -> "Health check failed: " \o code \o " - " \o details

\* the message of the HealthCheckError raised for an RPC error
ErrorMessage(code, details, tgt, service, timeout) ==
    CASE code = "UNIMPLEMENTED" ->
            "Health check not implemented on the server. "
            \o "Make sure the server implements grpc.health.v1.Health service."
      [] code = "DEADLINE_EXCEEDED" ->
            "Health check timed out after " \o FloatStr(timeout) \o "s"
      [] code = "UNAVAILABLE" -> "Cannot connect to " \o tgt
      [] code = "NOT_FOUND" -> "Service '" \o service \o "' not found"
      [] OTHER -> "Health check failed: " \o code \o " - " \o details

\* the line check_health prints for a status when verbose
StatusLine(status) ==
    CASE status = StatusValue("SERVING") ->
            Line("stdout", "OK", "Service is " \o StatusName(status))
      [] status = StatusValue("NOT_SERVING") ->
            Line("stdout", "FAIL", "Service is " \o StatusName(status))
      [] status = StatusValue("UNKNOWN") ->
            Line("stdout", "WARN", "Service status is " \o StatusName(status))
      [] OTHER ->
            Line("stdout", "QUERY", "Service status: " \o StatusName(status))

---------------------------------------------------------------------------
(* The run.                                                                *)

Init ==
    /\ pc = "parse"
    /\ argv \in CommandLines
    /\ server \in Servers
    /\ args = DefaultNamespace
    /\ target = ""
    /\ opened = 0
    /\ closed = 0
    /\ secure = FALSE
    /\ sent = <<>>
    /\ rpc = NoRpc
    /\ exc = NoExc
    /\ ret = FALSE
    /\ out = <<>>
    /\ exitCode = None

\* args = parser.parse_args()
ParseArgs ==
    /\ pc = "parse"
    /\ LET r == parse_args(argv) IN
       CASE r.res = "ok" ->
              /\ args' = r.ns
              /\ pc' = "build"
              /\ UNCHANGED <<out, exitCode>>
         [] r.res = "help" ->
              /\ out' = Append(out, Line("stdout", "NONE", "usage"))
              /\ exitCode' = Some(0)
              /\ pc' = "done"
              /\ UNCHANGED args
         [] r.res = "error" ->
              /\ out' = out \o << Line("stderr", "NONE", "usage"),
                                  Line("stderr", "NONE", "error: " \o r.msg) >>
              /\ exitCode' = Some(UsageErrorStatus)
              /\ pc' = "done"
              /\ UNCHANGED args
    /\ UNCHANGED <<argv, server, target, opened, closed, secure, sent, rpc, exc, ret>>

\* the "Build target address" block of main
BuildTarget ==
    /\ pc = "build"
    /\ IF Truthy(args.target)
       THEN /\ target' = args.target[1]
            /\ pc' = "call"
            /\ UNCHANGED <<out, exitCode>>
       ELSE IF args.port = None
            THEN /\ out' = out \o << Line("stderr", "NONE", "usage"),
                                     Line("stderr", "NONE",
                                          "error: --port is required when using --host") >>
                 /\ exitCode' = Some(UsageErrorStatus)
                 /\ pc' = "done"
                 /\ UNCHANGED target
            ELSE /\ target' = OptStr(args.host) \o ":" \o ToString(args.port[1])
                 /\ pc' = "call"
                 /\ UNCHANGED <<out, exitCode>>
    /\ UNCHANGED <<argv, server, args, opened, closed, secure, sent, rpc, exc, ret>>

\* check_health is entered: the verbose header
VerboseHeader ==
    /\ pc = "call"
    /\ out' = IF args.verbose
              THEN out \o
                   << Line("stdout", "INFO", "Checking health of gRPC server at " \o target),
                      Line("stdout", "NONE",
                           IF args.service # "" THEN "   Service: " \o args.service
                           ELSE "   Service: <overall server health>"),
                      Line("stdout", "NONE", "   Timeout: " \o FloatStr(args.timeout) \o "s"),
                      Line("stdout", "NONE",
                           IF args.tls THEN "   TLS: enabled" ELSE "   TLS: disabled"),
                      Line("stdout", "NONE", "") >>
              ELSE out
    /\ pc' = "connect"
    /\ UNCHANGED <<argv, server, args, target, opened, closed, secure, sent, rpc, exc,
                   ret, exitCode>>

\* "Create the appropriate channel"
OpenChannel ==
    /\ pc = "connect"
    /\ opened' = opened + 1
    /\ secure' = args.tls
    /\ pc' = "check"
    /\ UNCHANGED <<argv, server, args, target, closed, sent, rpc, exc, ret, out, exitCode>>

\* a request that leaves the service name out
HealthCheckRequest_NoService(service, timeout) == [service |-> "", timeout |-> timeout]

\* the request check_health builds
HealthCheckRequest(service, timeout) == [service |-> service, timeout |-> timeout]

\* response = stub.Check(request, timeout=timeout)
SendCheck ==
    /\ pc = "check"
    /\ \E net \in NetOutcomes, d \in Details :
         LET request == HealthCheckRequest(args.service, args.timeout) IN
         /\ sent' = Append(sent, request)
         /\ rpc' = IF net = "DELIVERED" THEN ServerCheck(server, request)
                   ELSE RpcError(net, d)
    /\ pc' = IF rpc'.kind = "error" THEN "rpc_error" ELSE "status"
    /\ UNCHANGED <<argv, server, args, target, opened, closed, secure, exc, ret, out,
                   exitCode>>

\* HandleRpcError that sends the Check again after UNAVAILABLE
HandleRpcError_Retry ==
    /\ pc = "rpc_error"
    /\ out' = IF args.verbose
              THEN out \o << Line("stdout", "FAIL", "gRPC Error: " \o rpc.code),
                             Line("stdout", "NONE", "   Details: " \o rpc.details) >>
              ELSE out
    /\ IF rpc.code = "UNAVAILABLE" /\ Len(sent) < 2
       THEN /\ pc' = "check"
            /\ UNCHANGED exc
       ELSE /\ exc' = Raise("HealthCheckError",
                            ErrorMessage(rpc.code, rpc.details, target, args.service,
                                         args.timeout))
            /\ pc' = "finally"
    /\ UNCHANGED <<argv, server, args, target, opened, closed, secure, sent, rpc, ret,
                   exitCode>>

\* except grpc.RpcError as e
HandleRpcError ==
    /\ pc = "rpc_error"
    /\ out' = IF args.verbose
              THEN out \o << Line("stdout", "FAIL", "gRPC Error: " \o rpc.code),
                             Line("stdout", "NONE", "   Details: " \o rpc.details) >>
              ELSE out
    /\ exc' = Raise("HealthCheckError",
                    ErrorMessage(rpc.code, rpc.details, target, args.service, args.timeout))
    /\ pc' = "finally"
    /\ UNCHANGED <<argv, server, args, target, opened, closed, secure, sent, rpc, ret,
                   exitCode>>

\* ReadStatus that returns "status is not NOT_SERVING"
ReadStatus_NotNotServing ==
    /\ pc = "status"
    /\ IF HasStatusName(rpc.status)
       THEN /\ out' = IF args.verbose THEN Append(out, StatusLine(rpc.status)) ELSE out
            /\ ret' = (rpc.status # StatusValue("NOT_SERVING"))
            /\ UNCHANGED exc
       ELSE /\ exc' = Raise("ValueError",
                            "Enum ServingStatus has no name defined for value "
                            \o ToString(rpc.status))
            /\ UNCHANGED <<out, ret>>
    /\ pc' = "finally"
    /\ UNCHANGED <<argv, server, args, target, opened, closed, secure, sent, rpc, exitCode>>

\* "Check the response status"
ReadStatus ==
    /\ pc = "status"
    /\ IF HasStatusName(rpc.status)
       THEN /\ out' = IF args.verbose THEN Append(out, StatusLine(rpc.status)) ELSE out
            /\ ret' = (rpc.status = StatusValue("SERVING"))
            /\ UNCHANGED exc
       ELSE /\ exc' = Raise("ValueError",
                            "Enum ServingStatus has no name defined for value "
                            \o ToString(rpc.status))
            /\ UNCHANGED <<out, ret>>
    /\ pc' = "finally"
    /\ UNCHANGED <<argv, server, args, target, opened, closed, secure, sent, rpc, exitCode>>

\* CloseChannel that closes on the success path only
CloseChannel_OnSuccessOnly ==
    /\ pc = "finally"
    /\ closed' = IF exc = NoExc THEN closed + 1 ELSE closed
    /\ pc' = IF exc = NoExc THEN "report" ELSE "except"
    /\ UNCHANGED <<argv, server, args, target, opened, secure, sent, rpc, exc, ret, out,
                   exitCode>>

\* finally: channel.close()
CloseChannel ==
    /\ pc = "finally"
    /\ closed' = closed + 1
    /\ pc' = IF exc = NoExc THEN "report" ELSE "except"
    /\ UNCHANGED <<argv, server, args, target, opened, secure, sent, rpc, exc, ret, out,
                   exitCode>>

\* ReportResult that prints its line when verbose instead of when not
ReportResult_VerboseOnly ==
    /\ pc = "report"
    /\ IF ret
       THEN /\ out' = IF args.verbose
                      THEN Append(out, Line("stdout", "OK", "Service is healthy"))
                      ELSE out
            /\ exitCode' = Some(0)
       ELSE /\ out' = IF args.verbose
                      THEN Append(out, Line("stdout", "FAIL", "Service is not healthy"))
                      ELSE out
            /\ exitCode' = Some(1)
    /\ pc' = "done"
    /\ UNCHANGED <<argv, server, args, target, opened, closed, secure, sent, rpc, exc, ret>>

\* if is_healthy: ... else: ...
ReportResult ==
    /\ pc = "report"
    /\ IF ret
       THEN /\ out' = IF ~args.verbose
                      THEN Append(out, Line("stdout", "OK", "Service is healthy"))
                      ELSE out
            /\ exitCode' = Some(0)
       ELSE /\ out' = IF ~args.verbose
                      THEN Append(out, Line("stdout", "FAIL", "Service is not healthy"))
                      ELSE out
            /\ exitCode' = Some(1)
    /\ pc' = "done"
    /\ UNCHANGED <<argv, server, args, target, opened, closed, secure, sent, rpc, exc, ret>>

\* HandleHealthCheckError that exits with 0
HandleHealthCheckError_ExitZero ==
    /\ pc = "except"
    /\ exc.type = "HealthCheckError"
    /\ out' = Append(out, Line("stderr", "FAIL", "Health check failed: " \o exc.msg))
    /\ exitCode' = Some(0)
    /\ pc' = "done"
    /\ UNCHANGED <<argv, server, args, target, opened, closed, secure, sent, rpc, exc, ret>>

\* except HealthCheckError as e
HandleHealthCheckError ==
    /\ pc = "except"
    /\ exc.type = "HealthCheckError"
    /\ out' = Append(out, Line("stderr", "FAIL", "Health check failed: " \o exc.msg))
    /\ exitCode' = Some(1)
    /\ pc' = "done"
    /\ UNCHANGED <<argv, server, args, target, opened, closed, secure, sent, rpc, exc, ret>>

\* except Exception as e
HandleUnexpected ==
    /\ pc = "except"
    /\ exc.type # "HealthCheckError"
    /\ out' = out \o << Line("stderr", "FAIL", "Unexpected error: " \o exc.msg) >>
                  \o (IF args.verbose THEN << Line("stderr", "NONE", "Traceback") >>
                      ELSE << >>)
    /\ exitCode' = Some(1)
    /\ pc' = "done"
    /\ UNCHANGED <<argv, server, args, target, opened, closed, secure, sent, rpc, exc, ret>>

Next ==
    \/ ParseArgs
    \/ BuildTarget
    \/ VerboseHeader
    \/ OpenChannel
    \/ SendCheck
    \/ HandleRpcError
    \/ ReadStatus
    \/ CloseChannel
    \/ ReportResult
    \/ HandleHealthCheckError
    \/ HandleUnexpected

Spec == Init /\ [][Next]_vars

---------------------------------------------------------------------------
(* Properties of a run.                                                    *)

Done == pc = "done"

HasLine(stream, mark) ==
    \E i \in 1..Len(out) : out[i].stream = stream /\ out[i].mark = mark

HasText(stream, mark, text) ==
    \E i \in 1..Len(out) : out[i] = Line(stream, mark, text)

\* the glyphs the tool uses for an outcome that is not healthy: the cross,
\* and in verbose mode also the warning sign (UNKNOWN) and the question
\* mark (any other status)
FailureMarks == {"FAIL", "WARN", "QUERY"}

Given(flag) == \E i \in 1..Len(argv) : argv[i].flag = flag

\* the value of the last occurrence of a flag on the command line
LastValue(flag) ==
    LET idx == { i \in 1..Len(argv) : argv[i].flag = flag }
    IN  argv[CHOOSE i \in idx : \A j \in idx : j <= i].val

\* the service name the command line asks for
ServiceGiven == IF Given("--service") THEN LastValue("--service") ELSE ""

Served(name) == rpc = Response(StatusValue(name))

\* C1: a run whose Check call returns SERVING goes on to terminate, prints a
\* success indicator on stdout (and no failure indicator) and exits with 0,
\* verbose or not.
C1_ServingExitsZero ==
    Served("SERVING") =>
        /\ ~Done => ENABLED Next
        /\ Done =>
            /\ exitCode = Some(0)
            /\ HasLine("stdout", "OK")
            /\ \A i \in 1..Len(out) : out[i].mark \notin FailureMarks

C1_Witness ==
    /\ Done
    /\ Served("SERVING")
    /\ args.verbose
    /\ args.tls
    /\ exitCode = Some(0)

\* C2: a run whose Check call returns NOT_SERVING, UNKNOWN or SERVICE_UNKNOWN
\* goes on to terminate, prints a failure indicator (and no success
\* indicator) and exits with 1, verbose or not.
C2_NotServingExitsOne ==
    (Served("NOT_SERVING") \/ Served("UNKNOWN") \/ Served("SERVICE_UNKNOWN")) =>
        /\ ~Done => ENABLED Next
        /\ Done =>
            /\ exitCode = Some(1)
            /\ \E i \in 1..Len(out) :
                 out[i].stream = "stdout" /\ out[i].mark \in FailureMarks
            /\ ~HasLine("stdout", "OK")

C2_Witness ==
    /\ Done
    /\ Served("UNKNOWN")
    /\ args.verbose
    /\ exitCode = Some(1)

\* a combined target is supplied: --target is given, with an address
TargetSupplied ==
    /\ Given("--target")
    /\ \A i \in 1..Len(argv) : argv[i].flag = "--target" => argv[i].val # ""

\* C3 (as claimed): when a combined target is supplied together with --host
\* or --port, no channel is ever opened and no Check is ever sent.
C3_TargetWithHostOrPortRejected ==
    (TargetSupplied /\ (Given("--host") \/ Given("--port"))) =>
        /\ opened = 0
        /\ sent = <<>>

\* C4 (as claimed): every terminated run has exit code 0 or 1; a run that
\* ends in an argument error has exit code 1.
C4_ExitCodeZeroOrOne ==
    Done => exitCode \in { Some(0), Some(1) }

\* C5: once check_health has opened its channel and has returned or raised,
\* the channel has been closed exactly once; it is never closed before the
\* Check call is over, and never closed without having been opened.
C5_ChannelAlwaysClosed ==
    /\ closed <= opened
    /\ pc \in {"check", "rpc_error", "status", "finally"} => opened = 1 /\ closed = 0
    /\ (pc \in {"report", "except"} \/ (Done /\ opened > 0)) => closed = 1
    /\ (exitCode # None /\ opened > 0) => closed = 1

C5_Witness ==
    /\ Done
    /\ opened = 1
    /\ closed = 1
    /\ exc.type = "ValueError"

\* C6: a run opens at most one channel and sends at most one Check, whatever
\* the Check call comes back with; a Check is only sent over an open channel.
C6_AtMostOneCall ==
    /\ opened <= 1
    /\ Len(sent) <= 1
    /\ Len(sent) = 1 => opened = 1
    /\ rpc # NoRpc => Len(sent) = 1

C6_Witness ==
    /\ Done
    /\ rpc.kind = "error"
    /\ rpc.code = "UNAVAILABLE"
    /\ Len(sent) = 1
    /\ opened = 1

\* the five cause categories, by the text of the message
C7_Unimplemented ==
    "Health check not implemented on the server. "
    \o "Make sure the server implements grpc.health.v1.Health service."

C7_TimedOut == "Health check timed out after " \o FloatStr(args.timeout) \o "s"

C7_Unreachable == "Cannot connect to " \o target

C7_NotFound == "Service '" \o args.service \o "' not found"

C7_Other == "Health check failed: " \o rpc.code \o " - " \o rpc.details

\* C7: when the Check call fails with an RPC error, the run ends with a
\* HealthCheckError whose message is the one of the category of the status
\* code (and of no other category), nothing is returned as a boolean, and
\* the process prints that message on stderr and exits with 1.
C7_ErrorClassifiedByCode ==
    (rpc.kind = "error" /\ pc \in {"finally", "except", "done"}) =>
        /\ exc.type = "HealthCheckError"
        /\ ret = FALSE
        /\ rpc.code = "UNIMPLEMENTED" <=> exc.msg = C7_Unimplemented
        /\ rpc.code = "DEADLINE_EXCEEDED" <=> exc.msg = C7_TimedOut
        /\ rpc.code = "UNAVAILABLE" <=> exc.msg = C7_Unreachable
        /\ rpc.code = "NOT_FOUND" <=> exc.msg = C7_NotFound
        /\ rpc.code \notin {"UNIMPLEMENTED", "DEADLINE_EXCEEDED", "UNAVAILABLE", "NOT_FOUND"}
             <=> exc.msg = C7_Other
        /\ Done =>
            /\ exitCode = Some(1)
            /\ HasText("stderr", "FAIL", "Health check failed: " \o exc.msg)
            /\ ~HasLine("stdout", "OK")

C7_Witness ==
    /\ Done
    /\ rpc = RpcError("NOT_FOUND", "")
    /\ server = ExampleServer
    /\ ServiceGiven = "X"
    /\ exitCode = Some(1)

\* C8: the request carries the service name of --service, the empty name
\* when --service is absent; when the mock server (SERVING for "", NOT_SERVING
\* for "X") answers, a run without --service exits 0 and a run with
\* --service X exits 1.
C8_RequestCarriesService ==
    /\ sent # <<>> => sent[1].service = ServiceGiven
    /\ (Done /\ server = MockServer /\ rpc.kind = "response") =>
        /\ ~Given("--service") => exitCode = Some(0)
        /\ ServiceGiven = "X" => exitCode = Some(1)

C8_Witness ==
    /\ Done
    /\ server = MockServer
    /\ ServiceGiven = "X"
    /\ rpc.kind = "response"
    /\ exitCode = Some(1)

\* the command line gets through argparse
Parsed == pc \notin {"parse"} /\ ~HasText("stderr", "NONE", "usage")
          /\ ~HasText("stdout", "NONE", "usage")

\* C9 (as claimed): with --target the address handed to check_health is the
\* --target value unchanged, with --host and --port it is host:port, and with
\* --host alone no channel is opened and no Check is sent.
C9_AddressFromArguments ==
    /\ (Parsed /\ Given("--target") /\ pc # "build") =>
          /\ exitCode \notin { Some(UsageErrorStatus) }
          /\ target = LastValue("--target")
    /\ (opened > 0 /\ ~Given("--target")) =>
          target = LastValue("--host") \o ":" \o LastValue("--port")
    /\ (~Given("--target") /\ ~(Given("--host") /\ Given("--port"))) =>
          opened = 0 /\ sent = <<>>

\* the run was ended by the help option
HelpShown == HasText("stdout", "NONE", "usage")

\* C10 (as claimed): a run that terminates with exit code 0 has opened a
\* channel and completed exactly one Check whose status was SERVING.
C10_ExitZeroOnlyIfServing ==
    exitCode = Some(0) =>
        /\ opened = 1
        /\ Len(sent) = 1
        /\ Served("SERVING")
        /\ exc = NoExc

\* C10 (amended): a run that terminates with exit code 0 without having been
\* ended by -h has opened a channel and completed exactly one Check whose
\* status was SERVING; a run ended by -h opens no channel and sends nothing.
C10_ExitZeroOnlyIfServingOrHelp ==
    /\ (exitCode = Some(0) /\ ~HelpShown) =>
        /\ opened = 1
        /\ closed = 1
        /\ Len(sent) = 1
        /\ Served("SERVING")
        /\ exc = NoExc
        /\ ret = TRUE
    /\ HelpShown =>
        /\ opened = 0
        /\ sent = <<>>
        /\ argv # <<>>
        /\ Given("-h")

C10_Witness ==
    /\ exitCode = Some(0)
    /\ ~HelpShown
    /\ opened = 1
    /\ Served("SERVING")
    /\ ~args.verbose

====
